---- MODULE Spec2Model ----
(***************************************************************************)
(* Model of cartographer_ros/occupancy_grid_node_main.cc: the submap       *)
(* (tile) cache kept by Node::HandleSubmapList, the two passes of          *)
(* Node::DrawAndPublish over CairoDrawEachSubmap, and the conversion of    *)
(* the painted canvas into a nav_msgs::OccupancyGrid.                      *)
(*                                                                         *)
(* Lengths are measured in output cells (resolution_ is the unit), poses   *)
(* are rigid transforms with identity rotation, written <<tx, ty>>.        *)
(***************************************************************************)
EXTENDS Integers, Sequences, FiniteSets, TLC

VARIABLES
    submaps,          \* Node::submaps_ : SubmapId -> SubmapState
    numSubscribers,   \* occupancy_grid_publisher_.getNumSubscribers()
    mutex,            \* Node::mutex_ : 0 when free, else the holding thread
    pc,               \* per callback thread: position inside HandleSubmapList
    msg,              \* per callback thread: the SubmapList being handled
    idx,              \* per callback thread: index of the next submap entry
    aborted,          \* the process was terminated by a failed CHECK / throw
    entryLog,         \* history: per handled entry, what became of its fetch
    cycle,            \* history: what DrawAndPublish did in the current batch
    prevReported,     \* history: <<id, version>> pairs of the last handled batch
    freshAtEnter,     \* history: ids cached at their reported version on entry
    repeatedAtEnter,  \* history: ids reported as by the preceding batch
    texel,            \* pixel conversion: <<intensity, alpha>> of a texture cell
    packed,           \* pixel conversion: word pushed to cairo_data
    canvas,           \* grid conversion: [size, pixel_data] of a painted surface
    occupancy_grid,   \* grid conversion: the message built from canvas
    visited,          \* filter: number of cells FilterOccupancyGrid has visited
    window,           \* history: what the filter read for the cell visited last
    unfiltered        \* history: occupancy_grid.data before the filter ran

nodeVars == <<submaps, numSubscribers, mutex, pc, msg, idx, aborted,
              entryLog, cycle, prevReported, freshAtEnter, repeatedAtEnter>>
pixelVars == <<texel, packed>>
gridVars == <<canvas, occupancy_grid>>
filterVars == <<visited, window, unfiltered>>
vars == <<nodeVars, pixelVars, gridVars, filterVars>>

----------------------------------------------------------------------------
(* Bounds of the model.                                                    *)

MaxBatchLen == 2
MaxCanvasDim == 2
MaxFilterDim == 2

(* Program constants.                                                      *)

kPaddingPixel == 5
MaxByte == 255
INT32_MAX == 2147483647
MAX_IMAGE_SIZE == 32767
occupancy_threshold == 50
FilterWindow == 5
\* size_t differences wrap around; every index of the model is far below.
SIZE_MODULUS == 1073741824

----------------------------------------------------------------------------
(* Input domains.                                                          *)

Threads == {1, 2}
SpinThread == 1

\* SubmapId{trajectory_id, submap_index}
Ids == {<<0, 1>>, <<1, 0>>}
Versions == {1, 2}
Poses == {<<0, 0>>, <<3, 1>>}
Stamps == {1}
FrameIds == {"map"}

Identity == <<0, 0>>
\* The value of the texture fields of a SubmapState that has no texture yet;
\* the code does not read them before it writes them.
Uninit == -1

\* One entry of msg->submap.
Entries == [id : Ids, version : Versions, pose : Poses]

RECURSIVE SeqsUpTo(_, _)
SeqsUpTo(S, n) ==
    IF n = 0 THEN {<<>>}
    ELSE LET shorter == SeqsUpTo(S, n - 1)
         IN  shorter \cup {Append(s, e) : s \in {t \in shorter : Len(t) = n - 1}, e \in S}

Batches == [frame_id : FrameIds, stamp : Stamps,
            submap : SeqsUpTo(Entries, MaxBatchLen)]

NoMsg == [frame_id |-> "", stamp |-> 0, submap |-> <<>>]

\* Width, height and cell arrays of the textures the query service may
\* return: cells for every pixel, ...
SoundShapes ==
    { [width |-> 2,  height |-> 1,  intensity |-> <<128, 0>>, alpha |-> <<255, 0>>] }

\* ... more cells than width * height, ...
OverlongShapes ==
    { [width |-> 1,  height |-> 1,  intensity |-> <<0, 200>>, alpha |-> <<0, 255>>] }

\* ... fewer alpha cells than intensity cells, or a negative extent.
BrokenShapes ==
    { [width |-> 1,  height |-> 1,  intensity |-> <<7>>, alpha |-> <<>>],
      [width |-> -1, height |-> 1,  intensity |-> <<>>,  alpha |-> <<>>],
      [width |-> 1,  height |-> -1, intensity |-> <<>>,  alpha |-> <<>>] }

\* The SubmapTextures FetchSubmapTexture may hand back (or else nullptr).
Textures(shapes) ==
    { [width |-> s.width, height |-> s.height, version |-> v,
       slice_pose |-> <<0, 1>>, resolution |-> 1,
       intensity |-> s.intensity, alpha |-> s.alpha] :
        s \in shapes, v \in Versions }

FetchResults == Textures(SoundShapes \cup BrokenShapes)

AnyFetchResults == Textures(SoundShapes \cup OverlongShapes \cup BrokenShapes)

----------------------------------------------------------------------------
(* Arithmetic helpers.                                                     *)

Min(S) == CHOOSE x \in S : \A y \in S : x <= y
Max(S) == CHOOSE x \in S : \A y \in S : x >= y

\* Bitwise or of two non-negative numbers, bit by bit.
RECURSIVE BitOr(_, _)
BitOr(a, b) ==
    IF a = 0 THEN b
    ELSE IF b = 0 THEN a
    ELSE (IF a % 2 = 1 \/ b % 2 = 1 THEN 1 ELSE 0) + 2 * BitOr(a \div 2, b \div 2)

\* A uint32_t is written as its four bytes, most significant first:
\* <<bits 24-31, bits 16-23, bits 8-15, bits 0-7>>.
Bytes == 0..MaxByte
Word32 == Bytes \X Bytes \X Bytes \X Bytes

\* (b << n) for a uint8_t b and n a multiple of 8, converted to uint32_t.
ByteShl(b, n) ==
    [k \in 1..4 |-> IF k = 4 - (n \div 8) THEN b ELSE 0]

\* w1 | w2
WordOr(w1, w2) == [k \in 1..4 |-> BitOr(w1[k], w2[k])]

\* (w >> n) for n a multiple of 8
WordShr(w, n) ==
    [k \in 1..4 |-> IF k - (n \div 8) >= 1 THEN w[k - (n \div 8)] ELSE 0]

\* Conversion of a uint32_t to unsigned char.
ToUint8(w) == w[4]

----------------------------------------------------------------------------
(* SubmapState and the ordered map.                                        *)

\* SubmapState(): surface is nullptr, the texture ints are not initialised.
NewSubmapState ==
    [surface |-> FALSE, width |-> Uninit, height |-> Uninit, version |-> Uninit,
     resolution |-> Uninit, slice_pose |-> Identity, cairo_data |-> <<>>,
     pose |-> Identity, metadata_version |-> -1]

\* operator< of SubmapId: trajectory_id first, then submap_index.
IdLess(a, b) == a[1] < b[1] \/ (a[1] = b[1] /\ a[2] < b[2])

\* Iteration order of std::map<SubmapId, SubmapState>.
RECURSIVE SortedIds(_)
SortedIds(S) ==
    IF S = {} THEN <<>>
    ELSE LET first == CHOOSE a \in S : \A b \in S \ {a} : IdLess(a, b)
         IN  <<first>> \o SortedIds(S \ {first})

\* submaps_[id]: inserts a default SubmapState when the key is missing.
Lookup(m, id) == IF id \in DOMAIN m THEN m[id] ELSE NewSubmapState

\* Variant: the map keeps only the entry that was touched last.
StoreAlone(m, id, st) == [k \in {id} |-> st]

Store(m, id, st) == [k \in DOMAIN m \cup {id} |-> IF k = id THEN st ELSE m[k]]

----------------------------------------------------------------------------
(* Texture cells -> cairo_data words (HandleSubmapList, lines 176-184).    *)

\* Variant: a cell counts as unobserved when either byte is zero.
ObservedEitherZero(intensity, alpha) ==
    IF intensity = 0 \/ alpha = 0 THEN 0 ELSE MaxByte

\* observed = (intensity == 0 && alpha == 0) ? 0 : 255
Observed(intensity, alpha) == IF intensity = 0 /\ alpha = 0 THEN 0 ELSE MaxByte

\* (alpha << 24) | (intensity << 16) | (observed << 8) | 0, stored as uint32_t
PackPixel(intensity, alpha) ==
    WordOr(WordOr(WordOr(ByteShl(alpha, 24), ByteShl(intensity, 16)),
                  ByteShl(Observed(intensity, alpha), 8)),
           ByteShl(0, 0))

\* cairo_format_stride_for_width(CAIRO_FORMAT_ARGB32, width)
StrideForWidth(width) ==
    IF width < 0 \/ width >= (INT32_MAX - 7) \div 32 THEN -1 ELSE 4 * width

\* cairo_surface_status of cairo_image_surface_create_for_data(...) is SUCCESS
SurfaceCreated(width, height, stride) ==
    /\ 0 <= width /\ width <= MAX_IMAGE_SIZE
    /\ 0 <= height /\ height <= MAX_IMAGE_SIZE
    /\ stride >= StrideForWidth(width)

\* The loop over fetched_texture->intensity; alpha.at(i) throws when alpha is
\* shorter than intensity.
AlphaAtThrows(texture) == Len(texture.alpha) < Len(texture.intensity)

CairoData(texture) ==
    [i \in 1..Len(texture.intensity) |->
        PackPixel(texture.intensity[i], texture.alpha[i])]

\* Variant: the pose of the entry is dropped.
WithMetadataVersionOnly(st, entry) ==
    [st EXCEPT !.metadata_version = entry.version]

\* Lines 153-154: pose and metadata_version are taken from the message entry.
WithMetadata(st, entry) ==
    [st EXCEPT !.pose = entry.pose, !.metadata_version = entry.version]

\* Variant: the version comparison is inverted.
UpToDateInverted(st, entry) == st.surface /\ st.version # entry.version

\* Variant: a tile without a surface is passed over as well.
UpToDateOrMissing(st, entry) == ~st.surface \/ st.version = entry.version

\* Lines 155-156: the cached texture is current, no fetch is needed.
UpToDate(st, entry) == st.surface /\ st.version = entry.version

\* Variant: the version of the message is stored with the fetched texture.
WithTextureAtReportedVersion(st, texture) ==
    [st EXCEPT !.width = texture.width, !.height = texture.height,
               !.version = st.metadata_version, !.slice_pose = texture.slice_pose,
               !.resolution = texture.resolution,
               !.cairo_data = CairoData(texture), !.surface = TRUE]

\* Lines 164-190: the fetched texture replaces the cached one.
WithTexture(st, texture) ==
    [st EXCEPT !.width = texture.width, !.height = texture.height,
               !.version = texture.version, !.slice_pose = texture.slice_pose,
               !.resolution = texture.resolution,
               !.cairo_data = CairoData(texture), !.surface = TRUE]

\* The CHECKs of lines 173 and 191 and the range check of line 180.
TextureIsFatal(texture) ==
    \/ 4 * texture.width # StrideForWidth(texture.width)
    \/ AlphaAtThrows(texture)
    \/ ~SurfaceCreated(texture.width, texture.height, 4 * texture.width)

----------------------------------------------------------------------------
(* CairoDrawEachSubmap and the bounding box (lines 72-96, 204-230).        *)

\* Variant: the callback is invoked for every cached tile.
DrawEachIgnoringSurface(m, ids) == ids

\* The ids, in map order, for which draw_callback is invoked.
RECURSIVE DrawEach(_, _)
DrawEach(m, ids) ==
    IF ids = <<>> THEN <<>>
    ELSE IF ~m[Head(ids)].surface THEN <<>>
    ELSE <<Head(ids)>> \o DrawEach(m, Tail(ids))

\* Variant: the map is walked from its last entry to its first.
CairoDrawEachSubmapBackwards(m) ==
    LET ids == SortedIds(DOMAIN m)
    IN  DrawEach(m, [i \in 1..Len(ids) |-> ids[Len(ids) + 1 - i]])

CairoDrawEachSubmap(m) == DrawEach(m, SortedIds(DOMAIN m))

\* pose * slice_pose for identity rotations.
Compose(a, b) == <<a[1] + b[1], a[2] + b[2]>>

\* cairo_user_to_device under scale, cairo_transform(matrix), cairo_scale:
\* the matrix is (xx, yx, xy, yy, x0, y0) = (0, 1, -1, 0, tx, -ty).
UserToDevice(st, x, y) ==
    LET t == Compose(st.pose, st.slice_pose)
    IN  <<t[1] - st.resolution * y, st.resolution * x - t[2]>>

Corners(st) ==
    { UserToDevice(st, 0, 0), UserToDevice(st, st.width, 0),
      UserToDevice(st, 0, st.height), UserToDevice(st, st.width, st.height) }

\* Eigen::AlignedBox2f: empty after construction.
EmptyBox == [empty |-> TRUE, min |-> <<0, 0>>, max |-> <<0, 0>>]

Extend(box, p) ==
    IF box.empty THEN [empty |-> FALSE, min |-> p, max |-> p]
    ELSE [empty |-> FALSE,
          min |-> <<Min({box.min[1], p[1]}), Min({box.min[2], p[2]})>>,
          max |-> <<Max({box.max[1], p[1]}), Max({box.max[2], p[2]})>>]

RECURSIVE ExtendAll(_, _)
ExtendAll(box, points) ==
    IF points = {} THEN box
    ELSE LET p == CHOOSE q \in points : TRUE
         IN  ExtendAll(Extend(box, p), points \ {p})

\* The first pass: the callback extends the box by the four corners.
RECURSIVE BoundingBox(_, _, _)
BoundingBox(m, ids, box) ==
    IF ids = <<>> THEN box
    ELSE BoundingBox(m, Tail(ids), ExtendAll(box, Corners(m[Head(ids)])))

\* size and origin of the canvas, lines 225-230.
CanvasSize(box) ==
    <<(box.max[1] - box.min[1]) + 2 * kPaddingPixel,
      (box.max[2] - box.min[2]) + 2 * kPaddingPixel>>

CanvasOrigin(box) == <<-box.min[1] + kPaddingPixel, -box.min[2] + kPaddingPixel>>

----------------------------------------------------------------------------
(* Canvas -> nav_msgs::OccupancyGrid (PublishOccupancyGrid, lines 307-352). *)

\* common::RoundToInt((1. - color / 255.) * 100.): the nearest integer to
\* (25500 - 100 * color) / 255, which is never half way between two integers.
RoundToIntPercent(color) == (2 * (25500 - 100 * color) + 255) \div 510

\* Variant: the threshold is compared with >=.
CellValueAtLeast50(word) ==
    LET color == ToUint8(WordShr(word, 16))
        observed == ToUint8(WordShr(word, 8))
        value == IF observed = 0 THEN -1 ELSE RoundToIntPercent(color)
    IN  IF value >= 50 THEN 100
        ELSE IF value # -1 THEN 0 ELSE -1

\* Lines 332-345 for one pixel word.
CellValue(word) ==
    LET color == ToUint8(WordShr(word, 16))
        observed == ToUint8(WordShr(word, 8))
        value == IF observed = 0 THEN -1 ELSE RoundToIntPercent(color)
    IN  IF value > 50 THEN 100
        ELSE IF value # -1 THEN 0 ELSE -1

\* The inner loop: one canvas row, x ascending.
RowCells(y, size, pixel_data) ==
    [x \in 1..size[1] |-> CellValue(pixel_data[y * size[1] + (x - 1) + 1])]

\* Variant: the rows are emitted top to bottom.
RowsTopDown(y, size, pixel_data) ==
    [k \in 1..((y + 1) * size[1]) |-> CellValue(pixel_data[k])]

\* The outer loop: y from size.y() - 1 down to 0.
RECURSIVE RowsDownFrom(_, _, _)
RowsDownFrom(y, size, pixel_data) ==
    IF y < 0 THEN <<>>
    ELSE RowCells(y, size, pixel_data) \o RowsDownFrom(y - 1, size, pixel_data)

GridData(size, pixel_data) == RowsDownFrom(size[2] - 1, size, pixel_data)

\* Variant: the header is left as default-constructed.
GridInfoWithoutHeader(frame_id, time, origin, size) ==
    [frame_id |-> "", stamp |-> 0, map_load_time |-> time,
     width |-> size[1], height |-> size[2],
     origin_x |-> -origin[1], origin_y |-> -size[2] + origin[2]]

\* Lines 312-325: header and info of the message.
GridInfo(frame_id, time, origin, size) ==
    [frame_id |-> frame_id, stamp |-> time, map_load_time |-> time,
     width |-> size[1], height |-> size[2],
     origin_x |-> -origin[1], origin_y |-> -size[2] + origin[2]]

PublishOccupancyGrid(frame_id, time, origin, size, pixel_data) ==
    [info |-> GridInfo(frame_id, time, origin, size),
     data |-> GridData(size, pixel_data)]

----------------------------------------------------------------------------
(* The node: HandleSubmapList and DrawAndPublish.                          *)

IdleCycle ==
    [bbox_tiles |-> <<>>, bounding_box |-> EmptyBox, painted |-> <<>>,
     published |-> <<>>]

\* The versions a batch reports for a tile.
Reported(batch, id) ==
    {batch.submap[i].version : i \in {j \in 1..Len(batch.submap) : batch.submap[j].id = id}}

\* The <<id, version>> pairs of the tiles a batch reports at one version.
ReportedPairs(batch) ==
    {<<id, v>> \in Ids \X Versions : Reported(batch, id) = {v}}

InitNode ==
    /\ submaps = <<>>
    /\ numSubscribers = 0
    /\ mutex = 0
    /\ pc = [t \in Threads |-> "idle"]
    /\ msg = [t \in Threads |-> NoMsg]
    /\ idx = [t \in Threads |-> 1]
    /\ aborted = FALSE
    /\ entryLog = <<>>
    /\ cycle = IdleCycle
    /\ prevReported = {}
    /\ freshAtEnter = {}
    /\ repeatedAtEnter = {}

\* A subscriber connects to / disconnects from the occupancy grid topic.
Subscribe ==
    /\ ~aborted
    /\ mutex = 0
    /\ numSubscribers = 0
    /\ numSubscribers' = 1
    /\ UNCHANGED <<submaps, mutex, pc, msg, idx, aborted, entryLog, cycle,
                   prevReported, freshAtEnter, repeatedAtEnter, pixelVars, gridVars, filterVars>>

Unsubscribe ==
    /\ ~aborted
    /\ mutex = 0
    /\ numSubscribers = 1
    /\ numSubscribers' = 0
    /\ UNCHANGED <<submaps, mutex, pc, msg, idx, aborted, entryLog, cycle,
                   prevReported, freshAtEnter, repeatedAtEnter, pixelVars, gridVars, filterVars>>

\* Variant: the handler does not look at the number of subscribers.
EnterIgnoringSubscribers(self, batch) ==
    /\ ~aborted
    /\ pc[self] = "idle"
    /\ mutex = 0
    /\ mutex' = self
    /\ pc' = [pc EXCEPT ![self] = "loop"]
    /\ msg' = [msg EXCEPT ![self] = batch]
    /\ idx' = [idx EXCEPT ![self] = 1]
    /\ freshAtEnter' =
           {id \in DOMAIN submaps :
               /\ submaps[id].surface
               /\ Reported(batch, id) = {submaps[id].version}}
    /\ repeatedAtEnter' =
           {id \in Ids : \E v \in Versions :
               /\ <<id, v>> \in prevReported
               /\ Reported(batch, id) = {v}}
    /\ prevReported' = {}
    /\ UNCHANGED <<submaps, numSubscribers, aborted, entryLog, cycle,
                   pixelVars, gridVars, filterVars>>

\* Variant: the handler does not take the mutex.
EnterWithoutLock(self, batch) ==
    /\ ~aborted
    /\ pc[self] = "idle"
    /\ pc' = [pc EXCEPT ![self] = IF numSubscribers = 0 THEN "nobody" ELSE "loop"]
    /\ msg' = [msg EXCEPT ![self] = batch]
    /\ UNCHANGED <<submaps, numSubscribers, mutex, idx, aborted, entryLog, cycle,
                   prevReported, freshAtEnter, repeatedAtEnter,
                   pixelVars, gridVars, filterVars>>

\* Lines 132-134, 144-149: the callback is invoked with a SubmapList and
\* takes the mutex (it waits while another thread holds it); it returns at
\* once when nobody listens.  The batch that was handled last is forgotten
\* when the next one is taken up.
Enter(self, batch) ==
    /\ ~aborted
    /\ pc[self] = "idle"
    /\ mutex = 0
    /\ IF numSubscribers = 0
       THEN /\ mutex' = self
            /\ pc' = [pc EXCEPT ![self] = "nobody"]
            /\ msg' = [msg EXCEPT ![self] = batch]
            /\ UNCHANGED <<idx, freshAtEnter, repeatedAtEnter, prevReported>>
       ELSE /\ mutex' = self
            /\ pc' = [pc EXCEPT ![self] = "loop"]
            /\ msg' = [msg EXCEPT ![self] = batch]
            /\ idx' = [idx EXCEPT ![self] = 1]
            /\ freshAtEnter' =
                   {id \in DOMAIN submaps :
                       /\ submaps[id].surface
                       /\ Reported(batch, id) = {submaps[id].version}}
            /\ repeatedAtEnter' =
                   {id \in Ids : \E v \in Versions :
                       /\ <<id, v>> \in prevReported
                       /\ Reported(batch, id) = {v}}
            /\ prevReported' = {}
    /\ UNCHANGED <<submaps, numSubscribers, aborted, entryLog, cycle,
                   pixelVars, gridVars, filterVars>>

\* Variant: the cached pixels are dropped when the fetch is skipped.
EntryUpToDateClearingData(self) ==
    LET entry == msg[self].submap[idx[self]]
        st == WithMetadata(Lookup(submaps, entry.id), entry)
    IN  /\ ~aborted
        /\ pc[self] = "loop"
        /\ idx[self] <= Len(msg[self].submap)
        /\ UpToDate(st, entry)
        /\ entryLog' = Append(entryLog, [id |-> entry.id, fetch |-> "skipped", version |-> Uninit])
        /\ submaps' = Store(submaps, entry.id, [st EXCEPT !.cairo_data = <<>>])
        /\ idx' = [idx EXCEPT ![self] = idx[self] + 1]
        /\ UNCHANGED <<numSubscribers, mutex, pc, msg, aborted, cycle,
                       prevReported, freshAtEnter, repeatedAtEnter,
                       pixelVars, gridVars, filterVars>>

\* Lines 150-195 for the entry at idx: the fetch is skipped.
EntryUpToDate(self) ==
    LET entry == msg[self].submap[idx[self]]
        st == WithMetadata(Lookup(submaps, entry.id), entry)
    IN  /\ ~aborted
        /\ pc[self] = "loop"
        /\ idx[self] <= Len(msg[self].submap)
        /\ UpToDate(st, entry)
        /\ entryLog' = Append(entryLog, [id |-> entry.id, fetch |-> "skipped", version |-> Uninit])
        /\ submaps' = Store(submaps, entry.id, st)
        /\ idx' = [idx EXCEPT ![self] = idx[self] + 1]
        /\ UNCHANGED <<numSubscribers, mutex, pc, msg, aborted, cycle,
                       prevReported, freshAtEnter, repeatedAtEnter, pixelVars, gridVars, filterVars>>

\* Variant: a nullptr texture is treated as a failed CHECK.
EntryFetchFailedFatal(self) ==
    LET entry == msg[self].submap[idx[self]]
        st == WithMetadata(Lookup(submaps, entry.id), entry)
    IN  /\ ~aborted
        /\ pc[self] = "loop"
        /\ idx[self] <= Len(msg[self].submap)
        /\ ~UpToDate(st, entry)
        /\ entryLog' = Append(entryLog, [id |-> entry.id, fetch |-> "failed", version |-> Uninit])
        /\ aborted' = TRUE
        /\ UNCHANGED <<submaps, idx, numSubscribers, mutex, pc, msg, cycle,
                       prevReported, freshAtEnter, repeatedAtEnter, pixelVars, gridVars, filterVars>>

\* Lines 150-163 for the entry at idx: FetchSubmapTexture returns nullptr.
EntryFetchFailed(self) ==
    LET entry == msg[self].submap[idx[self]]
        st == WithMetadata(Lookup(submaps, entry.id), entry)
    IN  /\ ~aborted
        /\ pc[self] = "loop"
        /\ idx[self] <= Len(msg[self].submap)
        /\ ~UpToDate(st, entry)
        /\ entryLog' = Append(entryLog, [id |-> entry.id, fetch |-> "failed", version |-> Uninit])
        /\ submaps' = Store(submaps, entry.id, st)
        /\ idx' = [idx EXCEPT ![self] = idx[self] + 1]
        /\ UNCHANGED <<numSubscribers, mutex, pc, msg, aborted, cycle,
                       prevReported, freshAtEnter, repeatedAtEnter, pixelVars, gridVars, filterVars>>

\* Lines 150-195 for the entry at idx: a texture is fetched and stored, or
\* a CHECK fails (uncaught throw of at()) and the process ends.
EntryFetched(self, texture) ==
    LET entry == msg[self].submap[idx[self]]
        st == WithMetadata(Lookup(submaps, entry.id), entry)
    IN  /\ ~aborted
        /\ pc[self] = "loop"
        /\ idx[self] <= Len(msg[self].submap)
        /\ ~UpToDate(st, entry)
        /\ entryLog' = Append(entryLog, [id |-> entry.id, fetch |-> "fetched",
                                        version |-> texture.version])
        /\ IF TextureIsFatal(texture)
           THEN /\ aborted' = TRUE
                /\ UNCHANGED <<submaps, idx>>
           ELSE /\ submaps' = Store(submaps, entry.id, WithTexture(st, texture))
                /\ idx' = [idx EXCEPT ![self] = idx[self] + 1]
                /\ UNCHANGED aborted
        /\ UNCHANGED <<numSubscribers, mutex, pc, msg, cycle, prevReported,
                       freshAtEnter, repeatedAtEnter, pixelVars, gridVars, filterVars>>

\* What the conversions of an empty box's extent to int leave in 'size':
\* the grid that is published has no cells and a meaningless extent.
GarbageSize == <<-INT32_MAX - 1, -INT32_MAX - 1>>

GarbageGrid(frame_id, time) ==
    [frame_id |-> frame_id, stamp |-> time, map_load_time |-> time,
     width |-> GarbageSize[1], height |-> GarbageSize[2],
     origin_x |-> 0, origin_y |-> 0]

\* Lines 196, 199-249: DrawAndPublish once the loop is over.
DrawAndPublish(self) ==
    LET drawn == CairoDrawEachSubmap(submaps)
        box == BoundingBox(submaps, drawn, EmptyBox)
        frame_id == msg[self].frame_id
        time == msg[self].stamp
    IN  /\ ~aborted
        /\ pc[self] = "loop"
        /\ idx[self] = Len(msg[self].submap) + 1
        /\ IF DOMAIN submaps = {}
           THEN /\ cycle' = IdleCycle
                /\ pc' = [pc EXCEPT ![self] = "return"]
                /\ UNCHANGED aborted
           ELSE IF box.empty
           THEN \/ /\ cycle' = [bbox_tiles |-> drawn, bounding_box |-> box,
                                painted |-> drawn,
                                published |-> <<GarbageGrid(frame_id, time)>>]
                   /\ pc' = [pc EXCEPT ![self] = "return"]
                   /\ UNCHANGED aborted
                \/ /\ aborted' = TRUE
                   /\ UNCHANGED <<cycle, pc>>
           ELSE /\ cycle' = [bbox_tiles |-> drawn, bounding_box |-> box,
                             painted |-> CairoDrawEachSubmap(submaps),
                             published |->
                                 <<GridInfo(frame_id, time, CanvasOrigin(box),
                                            CanvasSize(box))>>]
                /\ pc' = [pc EXCEPT ![self] = "return"]
                /\ UNCHANGED aborted
        /\ UNCHANGED <<submaps, numSubscribers, mutex, msg, idx, entryLog,
                       prevReported, freshAtEnter, repeatedAtEnter, pixelVars, gridVars, filterVars>>

\* Lines 148 and 197: the MutexLocker goes out of scope.
Return(self) ==
    /\ ~aborted
    /\ pc[self] \in {"nobody", "return"}
    /\ mutex' = 0
    /\ pc' = [pc EXCEPT ![self] = "idle"]
    /\ prevReported' = IF pc[self] = "return" THEN ReportedPairs(msg[self])
                       ELSE prevReported
    /\ msg' = [msg EXCEPT ![self] = NoMsg]
    /\ idx' = [idx EXCEPT ![self] = 1]
    /\ entryLog' = <<>>
    /\ cycle' = IdleCycle
    /\ freshAtEnter' = {}
    /\ repeatedAtEnter' = {}
    /\ UNCHANGED <<submaps, numSubscribers, aborted, pixelVars, gridVars, filterVars>>

HandleSubmapList(self, batches, textures) ==
    \/ \E batch \in batches : Enter(self, batch)
    \/ EntryUpToDate(self)
    \/ EntryFetchFailed(self)
    \/ \E texture \in textures : EntryFetched(self, texture)
    \/ DrawAndPublish(self)
    \/ Return(self)

NoGrid == [info |-> GridInfo("", 0, Identity, <<0, 0>>), data |-> <<>>]

InitPixelIdle == texel = <<0, 0>> /\ packed = <<>>
InitGridIdle == canvas = [size |-> <<0, 0>>, pixel_data |-> <<>>] /\ occupancy_grid = NoGrid

\* FilterOccupancyGrid is not called (line 350 is commented out).
NoWindow == [examined |-> FALSE, reads |-> {}, wrapped |-> FALSE]

InitFilterIdle == visited = 0 /\ window = NoWindow /\ unfiltered = <<>>

Init == InitNode /\ InitPixelIdle /\ InitGridIdle /\ InitFilterIdle

\* ros::spin() in main(): one thread runs the callbacks.
Next ==
    \/ Subscribe
    \/ Unsubscribe
    \/ HandleSubmapList(SpinThread, Batches, FetchResults)

Spec == Init /\ [][Next]_vars

----------------------------------------------------------------------------
(* The node with a query service that may also return textures carrying    *)
(* more cells than width * height.                                         *)

\* Batches of a single entry with the default pose.
ShortBatches ==
    {b \in Batches : Len(b.submap) <= 1 /\ \A i \in 1..Len(b.submap) : b.submap[i].pose = Identity}

NextTexture ==
    \/ Subscribe
    \/ Unsubscribe
    \/ HandleSubmapList(SpinThread, ShortBatches, AnyFetchResults)

SpecTexture == Init /\ [][NextTexture]_vars

----------------------------------------------------------------------------
(* Packing of one texture cell, for every intensity and alpha.             *)

InitPixel ==
    /\ InitNode /\ InitGridIdle /\ InitFilterIdle
    /\ texel \in Bytes \X Bytes
    /\ packed = <<>>

\* Lines 179-183 for one cell.
Pack ==
    /\ packed = <<>>
    /\ packed' = PackPixel(texel[1], texel[2])
    /\ UNCHANGED <<texel, nodeVars, gridVars, filterVars>>

SpecPixel == InitPixel /\ [][Pack]_vars

----------------------------------------------------------------------------
(* Conversion of a painted canvas, for small canvases and for every colour *)
(* and observed byte of a pixel.                                           *)

\* The word cairo_paint leaves for (0.5, 0, 0, 1), a free and an occupied cell.
PixelSamples ==
    { <<255, 128, 0, 0>>, PackPixel(255, 255), PackPixel(0, 255) }

\* A canvas of one pixel, for every colour and observed byte.
OnePixelCanvases ==
    { [size |-> <<1, 1>>, pixel_data |-> << <<255, color, observed, 0>> >>] :
        color \in Bytes, observed \in Bytes }

InitGrid ==
    /\ InitNode /\ InitPixelIdle /\ InitFilterIdle
    /\ \/ canvas \in OnePixelCanvases
       \/ \E w \in 1..MaxCanvasDim, h \in 1..MaxCanvasDim :
              \E pixel_data \in [1..(w * h) -> PixelSamples] :
                  canvas = [size |-> <<w, h>>, pixel_data |-> pixel_data]
    /\ occupancy_grid = NoGrid

\* PublishOccupancyGrid applied to the canvas.
Publish ==
    /\ occupancy_grid = NoGrid
    /\ occupancy_grid' =
           PublishOccupancyGrid("map", 1, <<kPaddingPixel, kPaddingPixel>>,
                                canvas.size, canvas.pixel_data)
    /\ UNCHANGED <<canvas, nodeVars, pixelVars, filterVars>>

SpecGrid == InitGrid /\ [][Publish]_vars

----------------------------------------------------------------------------
(* The node fed with submap lists that name every submap once.             *)

CacheBatches ==
    {b \in Batches :
        \A i, j \in 1..Len(b.submap) : i # j => b.submap[i].id # b.submap[j].id}

NextCache ==
    \/ Subscribe
    \/ Unsubscribe
    \/ HandleSubmapList(SpinThread, CacheBatches, FetchResults)

SpecCache == Init /\ [][NextCache]_vars

----------------------------------------------------------------------------
(* The node with callbacks on two threads, fed with submap lists that      *)
(* differ in their header.                                                 *)

HeaderStamps == {1, 2}
HeaderFrameIds == {"map", "odom"}

PlainEntries == {e \in Entries : e.pose = Identity /\ e.version = 1}

HeaderBatches ==
    [frame_id : HeaderFrameIds, stamp : HeaderStamps,
     submap : SeqsUpTo(PlainEntries, MaxBatchLen)]

NextThreads ==
    \/ Subscribe
    \/ Unsubscribe
    \/ \E t \in Threads : HandleSubmapList(t, HeaderBatches, FetchResults)

SpecThreads == Init /\ [][NextThreads]_vars

----------------------------------------------------------------------------
(* The node with a query service that does not fail for ever on a submap   *)
(* it is asked for again and again.                                        *)

SoundTextures == Textures(SoundShapes)

\* The loop stands at an entry that names the tile.
AtEntryOf(self, id) ==
    /\ pc[self] = "loop"
    /\ idx[self] <= Len(msg[self].submap)
    /\ msg[self].submap[idx[self]].id = id

\* The fetch for the entry at hand returns a texture that passes the CHECKs.
FetchSucceeds(self, id) ==
    /\ AtEntryOf(self, id)
    /\ \E texture \in SoundTextures : EntryFetched(self, texture)

NextRetry ==
    \/ Subscribe
    \/ Unsubscribe
    \/ HandleSubmapList(SpinThread, ShortBatches, FetchResults)

SpecRetry ==
    /\ Init /\ [][NextRetry]_vars
    /\ \A id \in Ids : SF_vars(FetchSucceeds(SpinThread, id))

----------------------------------------------------------------------------
(* FilterOccupancyGrid (lines 275-305), one step per visited cell.         *)

\* a - b in size_t.
SizeSub(a, b) == IF a >= b THEN a - b ELSE a - b + SIZE_MODULUS

\* (y > 0 ? y - 2 : 0) and (y + 2 < height ? y + 2 : height), the bounds of
\* the loops of lines 282-286 (the upper one is inclusive).
WindowLow(c) == IF c > 0 THEN SizeSub(c, 2) ELSE 0
WindowHigh(c, extent) == IF c + 2 < extent THEN c + 2 ELSE extent

\* The <<i, j>> for which line 288 is executed for the cell in row y, column x.
WindowReads(x, y, width, height) ==
    (WindowLow(y)..WindowHigh(y, height)) \X (WindowLow(x)..WindowHigh(x, width))

\* Some y - 2 or x - 2 that was computed is below zero.
WindowWraps(x, y, width, height) ==
    \/ y > 0 /\ y < 2
    \/ WindowLow(y) <= WindowHigh(y, height) /\ x > 0 /\ x < 2

\* Line 281: the cell is unknown or above the threshold.
Examined(cell_value) == cell_value < 0 \/ cell_value > occupancy_threshold

\* The reads of line 288 that lie within occupancy_grid.data.
ReadsInsideData(reads, data, width) ==
    {r \in reads : r[1] * width + r[2] < Len(data)}

\* Lines 279-302 for one cell; garbage_free is the number of reads past the
\* end of data that came out strictly between 0 and the threshold.
FilteredCell(data, width, height, x, y, garbage_free) ==
    LET cell_value == data[y * width + x + 1]
        reads == WindowReads(x, y, width, height)
        count == Cardinality(reads)
        no_occ ==
            Cardinality({r \in ReadsInsideData(reads, data, width) :
                            /\ data[r[1] * width + r[2] + 1] > 0
                            /\ data[r[1] * width + r[2] + 1] < occupancy_threshold})
                + garbage_free
    IN  IF Examined(cell_value)
        THEN IF no_occ > count \div 2 THEN 0
             ELSE IF cell_value > 0 THEN 100 ELSE -1
        ELSE 0

\* The values PublishOccupancyGrid writes, and a value the filter counts as
\* confidently free.
CellValues == {-1, 0, 100}
BackgroundValues == {0, 25}

\* A grid of FilterWindow x FilterWindow cells, uniform but for its centre.
IsolatedCellGrid(centre, background) ==
    [k \in 1..(FilterWindow * FilterWindow) |->
        IF k = (FilterWindow * FilterWindow + 1) \div 2 THEN centre ELSE background]

GridOf(width, height, data) ==
    [info |-> GridInfo("map", 1, <<kPaddingPixel, kPaddingPixel>>, <<width, height>>),
     data |-> data]

InitFilter ==
    /\ InitNode /\ InitPixelIdle
    /\ canvas = [size |-> <<0, 0>>, pixel_data |-> <<>>]
    /\ \/ \E w \in 1..MaxFilterDim, h \in 1..MaxFilterDim :
              \E data \in [1..(w * h) -> CellValues] :
                  occupancy_grid = GridOf(w, h, data)
       \/ \E centre \in CellValues, background \in BackgroundValues :
              occupancy_grid =
                  GridOf(FilterWindow, FilterWindow, IsolatedCellGrid(centre, background))
    /\ unfiltered = occupancy_grid.data
    /\ visited = 0
    /\ window = NoWindow

\* One iteration of the loop over x (lines 278-303).
FilterCell ==
    LET width == occupancy_grid.info.width
        height == occupancy_grid.info.height
        data == occupancy_grid.data
        x == visited % width
        y == visited \div width
        reads == WindowReads(x, y, width, height)
        outside == reads \ ReadsInsideData(reads, data, width)
        examined == Examined(data[visited + 1])
    IN  /\ unfiltered # <<>>
        /\ visited < width * height
        /\ \E garbage_free \in 0..(IF examined THEN Cardinality(outside) ELSE 0) :
               occupancy_grid' =
                   [occupancy_grid EXCEPT
                       !.data[visited + 1] =
                           FilteredCell(data, width, height, x, y, garbage_free)]
        /\ visited' = visited + 1
        /\ window' = IF examined
                     THEN [examined |-> TRUE, reads |-> reads,
                           wrapped |-> WindowWraps(x, y, width, height)]
                     ELSE NoWindow
        /\ UNCHANGED <<unfiltered, canvas, nodeVars, pixelVars>>

SpecFilter == InitFilter /\ [][FilterCell]_vars

----------------------------------------------------------------------------
(* Properties.                                                             *)

\* The thread that is inside HandleSubmapList past the subscriber test.
Handling(self) == pc[self] \in {"loop", "return"}

\* The batch has been handled up to and including DrawAndPublish.
Handled(self) == pc[self] = "return"

\* The tiles FetchSubmapTexture was called for in the current batch.
FetchedIds ==
    {entryLog[k].id : k \in {j \in 1..Len(entryLog) : entryLog[j].fetch # "skipped"}}

\* The tiles whose fetch returned nullptr in the current batch (and for
\* which no other fetch of the batch returned a texture).
FailedIds ==
    {id \in Ids :
        /\ \E k \in 1..Len(entryLog) :
              entryLog[k].id = id /\ entryLog[k].fetch = "failed"
        /\ \A k \in 1..Len(entryLog) :
              entryLog[k].id = id => entryLog[k].fetch # "fetched"}

InSeq(x, seq) == \E k \in 1..Len(seq) : seq[k] = x

RasterIds == {id \in DOMAIN submaps : submaps[id].surface}

BoxCovers(box, p) ==
    /\ ~box.empty
    /\ box.min[1] <= p[1] /\ p[1] <= box.max[1]
    /\ box.min[2] <= p[2] /\ p[2] <= box.max[2]

(* C1 as stated: a tile that two successive batches report at the same     *)
(* version is not fetched while the second batch is handled.               *)
C1_NoFetchOfRepeatedTile ==
    \A self \in Threads : Handling(self) =>
        \A id \in repeatedAtEnter : id \notin FetchedIds

(* C1, amended: a tile that two successive batches report at the same      *)
(* version, and that has a raster of that version when the second batch is *)
(* taken up, is not fetched while the second batch is handled.             *)
C1_NoFetchOfCachedRepeatedTile ==
    \A self \in Threads : Handling(self) =>
        \A id \in repeatedAtEnter \cap freshAtEnter : id \notin FetchedIds

C1_Witness ==
    \E self \in Threads :
        /\ Handled(self)
        /\ \E k \in 1..Len(entryLog) :
              /\ entryLog[k].id \in repeatedAtEnter \cap freshAtEnter
              /\ entryLog[k].fetch = "skipped"

(* C2: in a render cycle every cached tile that has a raster contributes   *)
(* its four corners to the bounding box and is painted, whatever other     *)
(* tiles lack a raster; tiles without a raster are skipped in both passes. *)
C2_EveryRasterTileDrawn ==
    \A self \in Threads : (Handled(self) /\ DOMAIN submaps # {}) =>
        /\ \A id \in RasterIds :
              /\ InSeq(id, cycle.bbox_tiles)
              /\ InSeq(id, cycle.painted)
              /\ \A p \in Corners(submaps[id]) : BoxCovers(cycle.bounding_box, p)
        /\ \A id \in DOMAIN submaps \ RasterIds :
              /\ ~InSeq(id, cycle.bbox_tiles)
              /\ ~InSeq(id, cycle.painted)

(* C3: when DrawAndPublish runs while no cached tile has a raster, the     *)
(* cycle ends without a published grid.                                    *)
C3_NothingPublishedWithoutRaster ==
    \A self \in Threads : (Handled(self) /\ RasterIds = {}) => cycle.published = <<>>

(* C4: a fetch that returns nullptr does not end the batch: the loop goes  *)
(* on to the next entry, every entry of the batch is handled before        *)
(* DrawAndPublish, and the process is not terminated by the failure.       *)
C4_FailedFetchDoesNotAbortBatch ==
    \A self \in Threads : Handling(self) =>
        \A k \in 1..Len(entryLog) : entryLog[k].fetch = "failed" =>
            /\ idx[self] > k
            /\ \A j \in k..Len(entryLog) : entryLog[j].id = msg[self].submap[j].id
            /\ ~aborted => Len(entryLog) = idx[self] - 1
            /\ Handled(self) => Len(entryLog) = Len(msg[self].submap)
            /\ aborted => (Len(entryLog) > k \/ idx[self] = Len(msg[self].submap) + 1)

C4_Witness ==
    \E self \in Threads :
        /\ Handled(self)
        /\ Len(entryLog) = 2
        /\ entryLog[1].fetch = "failed"
        /\ entryLog[2].fetch = "fetched"
        /\ submaps[entryLog[2].id].surface

LastEntry(batch, id) ==
    batch.submap[Max({i \in 1..Len(batch.submap) : batch.submap[i].id = id})]

C7_RasterHasWidthTimesHeightPixels ==
    \A id \in RasterIds :
        Len(submaps[id].cairo_data) = submaps[id].width * submaps[id].height

Abs(x) == IF x < 0 THEN -x ELSE x

\* The integer nearest to (1 - color / 255) * 100.
NearestPercent(color) ==
    CHOOSE p \in 0..100 : 2 * Abs(255 * p - 100 * (255 - color)) <= 255

\* The grid cell that belongs to the canvas pixel in row y, column x.
CellOfPixel(grid, size, x, y) == grid.data[(size[2] - 1 - y) * size[1] + x + 1]

(* C8: the cell of a canvas pixel is -1 when its observed byte (bits 8-15) *)
(* is 0, whatever its colour byte; otherwise it is 100 when the rounded    *)
(* percentage of 1 - color / 255 exceeds 50 and 0 when it does not.        *)
C8_Quantization ==
    occupancy_grid # NoGrid =>
        \A x \in 0..(canvas.size[1] - 1), y \in 0..(canvas.size[2] - 1) :
            LET word == canvas.pixel_data[y * canvas.size[1] + x + 1]
                color == word[2]
                observed == word[3]
                cell == CellOfPixel(occupancy_grid, canvas.size, x, y)
            IN  /\ cell \in {-1, 0, 100}
                /\ observed = 0 => cell = -1
                /\ (observed # 0 /\ NearestPercent(color) > 50) => cell = 100
                /\ (observed # 0 /\ NearestPercent(color) <= 50) => cell = 0

C8_Witness ==
    /\ occupancy_grid # NoGrid
    /\ canvas.size = <<1, 1>>
    /\ canvas.pixel_data[1][3] # 0
    /\ NearestPercent(canvas.pixel_data[1][2]) = 50
    /\ occupancy_grid.data = <<0>>

(* C9: the grid of a W x H canvas has width W, height H and W * H cells,   *)
(* and the cell in grid row r, column c comes from the canvas pixel in row *)
(* H - 1 - r, column c.                                                    *)
C9_VerticalFlip ==
    occupancy_grid # NoGrid =>
        LET W == canvas.size[1]
            H == canvas.size[2]
        IN  /\ occupancy_grid.info.width = W
            /\ occupancy_grid.info.height = H
            /\ Len(occupancy_grid.data) = W * H
            /\ \A r \in 0..(H - 1), c \in 0..(W - 1) :
                  occupancy_grid.data[r * W + c + 1] =
                      CellValue(canvas.pixel_data[(H - 1 - r) * W + c + 1])

C9_Witness ==
    /\ occupancy_grid # NoGrid
    /\ canvas.size = <<1, 2>>
    /\ CellValue(canvas.pixel_data[1]) = 100
    /\ CellValue(canvas.pixel_data[2]) = -1
    /\ occupancy_grid.data = <<-1, 100>>

(* C10: the word stored for a texture cell has alpha in bits 24-31, the    *)
(* intensity in bits 16-23, the observed flag in bits 8-15 and a zero low  *)
(* byte; the flag is 0 exactly when intensity and alpha are both 0, else   *)
(* 255; the quantizer's shifts give back the intensity and the flag.       *)
C10_PackedWord ==
    packed # <<>> =>
        LET intensity == texel[1]
            alpha == texel[2]
            observed == IF intensity = 0 /\ alpha = 0 THEN 0 ELSE 255
        IN  /\ packed = <<alpha, intensity, observed, 0>>
            /\ ToUint8(WordShr(packed, 16)) = intensity
            /\ ToUint8(WordShr(packed, 8)) = observed

C10_Witness ==
    /\ packed # <<>>
    /\ texel = <<0, 255>>
    /\ packed = <<255, 0, 255, 0>>

\* The tiles a batch names.
BatchIds(batch) == {batch.submap[i].id : i \in 1..Len(batch.submap)}

\* The tiles of the entries the loop of HandleSubmapList is about to handle.
EntryIdsInHand ==
    {msg[t].submap[idx[t]].id :
        t \in {u \in Threads : pc[u] = "loop" /\ idx[u] <= Len(msg[u].submap)}}

(* C11 as stated: once the handler has been through a batch, with or        *)
(* without subscribers, every tile the batch names has a cache entry (the   *)
(* cached identities are all identities of the batches received so far).    *)
C11_EveryReceivedIdCached ==
    \A t \in Threads : pc[t] \in {"nobody", "return"} =>
        BatchIds(msg[t]) \subseteq DOMAIN submaps

(* C11, amended: no step removes a cache entry, an entry is only created    *)
(* for the tile of the batch entry being handled, and once a batch has been *)
(* handled with a subscriber present every tile it names has an entry.      *)
C11_CacheGrowsByHandledIds ==
    [][/\ DOMAIN submaps \subseteq DOMAIN submaps'
       /\ (DOMAIN submaps' \ DOMAIN submaps) \subseteq EntryIdsInHand
       /\ \A t \in Threads : pc'[t] = "return" =>
              BatchIds(msg'[t]) \subseteq DOMAIN submaps']_vars

C11_Witness ==
    \E t \in Threads :
        /\ pc[t] = "return"
        /\ DOMAIN submaps = Ids
        /\ BatchIds(msg[t]) # {}
        /\ BatchIds(msg[t]) # Ids

(* C12: the mutex is held by a thread exactly while it is inside the       *)
(* handler, so at most one thread is inside it; while one batch's entries   *)
(* are being applied no other thread is in the loop or in DrawAndPublish,   *)
(* the log of the batch is that thread's, and nothing has been published.   *)
C12_SingleWriter ==
    /\ \A t \in Threads : pc[t] # "idle" <=> mutex = t
    /\ \A t1, t2 \in Threads : (pc[t1] # "idle" /\ pc[t2] # "idle") => t1 = t2
    /\ \A t \in Threads : (pc[t] = "loop" /\ ~aborted) =>
           /\ Len(entryLog) = idx[t] - 1
           /\ \A k \in 1..Len(entryLog) : entryLog[k].id = msg[t].submap[k].id
           /\ cycle = IdleCycle

C12_Witness ==
    /\ pc[1] = "idle"
    /\ pc[2] = "loop"
    /\ mutex = 2
    /\ Len(msg[2].submap) = 2
    /\ idx[2] = 2
    /\ entryLog[1].fetch = "fetched"
    /\ \E id \in RasterIds : id \notin BatchIds(msg[2])

\* The tiles that are cached without a raster.
RasterlessIds == DOMAIN submaps \ RasterIds

(* C13 as stated: once the handler has been through a batch, with or        *)
(* without subscribers, every tile the batch names that is cached without a *)
(* raster has been fetched for in that batch.                               *)
C13_EveryBatchRetries ==
    \A t \in Threads : pc[t] \in {"nobody", "return"} =>
        \A id \in BatchIds(msg[t]) \cap RasterlessIds : id \in FetchedIds

(* C13, amended: whenever the loop handles an entry that names a cached     *)
(* tile without a raster, FetchSubmapTexture is called for the tile; and if *)
(* the loop of the running process stands at entries naming the tile again  *)
(* and again and the fetch does not fail for ever, a tile without a raster  *)
(* eventually has one.                                                      *)
C13_NaturalRetry ==
    /\ [][\A t \in Threads :
             (/\ AtEntryOf(t, msg[t].submap[idx[t]].id)
              /\ msg[t].submap[idx[t]].id \in RasterlessIds
              /\ Len(entryLog') = Len(entryLog) + 1)
             => /\ entryLog'[Len(entryLog')].id = msg[t].submap[idx[t]].id
                /\ entryLog'[Len(entryLog')].fetch # "skipped"]_vars
    /\ \A id \in Ids :
           ([]<>(~aborted /\ AtEntryOf(SpinThread, id)))
               => [](id \in RasterlessIds => <>(id \in RasterIds))

C13_Witness ==
    \E t \in Threads :
        /\ pc[t] = "return"
        /\ \E id \in repeatedAtEnter :
              /\ id \in RasterlessIds
              /\ id \in FetchedIds

\* The filter has been through the whole grid.
Filtered ==
    /\ unfiltered # <<>>
    /\ visited = occupancy_grid.info.width * occupancy_grid.info.height

(* C14: after FilterOccupancyGrid, a cell that was above the threshold and  *)
(* whose 5x5 neighbourhood lay within the grid and held free cells (0) only *)
(* apart from it, is free (0).                                              *)
C14_IsolatedOccupiedCellFreed ==
    Filtered =>
        LET width == occupancy_grid.info.width
            height == occupancy_grid.info.height
        IN  \A y \in 2..(height - 3), x \in 2..(width - 3) :
                (/\ unfiltered[y * width + x + 1] > occupancy_threshold
                 /\ \A i \in (y - 2)..(y + 2), j \in (x - 2)..(x + 2) :
                        <<i, j>> # <<y, x>> => unfiltered[i * width + j + 1] = 0)
                => occupancy_grid.data[y * width + x + 1] = 0

(* C15: for the cell the filter examined last, in row y and column x, no    *)
(* index computation wrapped around, every <<i, j>> it read lies within the *)
(* grid, and what it read is the part of [y-2, y+2] x [x-2, x+2] that lies  *)
(* within the grid.                                                         *)
C15_WindowClampedToGrid ==
    window.examined =>
        LET width == occupancy_grid.info.width
            height == occupancy_grid.info.height
            x == (visited - 1) % width
            y == (visited - 1) \div width
            grid == (0..(height - 1)) \X (0..(width - 1))
        IN  /\ ~window.wrapped
            /\ window.reads \subseteq grid
            /\ window.reads =
                   {r \in grid : /\ y - 2 <= r[1] /\ r[1] <= y + 2
                                 /\ x - 2 <= r[2] /\ r[2] <= x + 2}

\* The entry the loop of thread t is about to handle.
EntryInHand(t) == msg[t].submap[idx[t]]

\* This step handles the entry in hand of thread t and moves on to the next.
HandlesEntry(t) ==
    /\ pc[t] = "loop"
    /\ idx[t] <= Len(msg[t].submap)
    /\ idx'[t] = idx[t] + 1
    /\ Len(entryLog') = Len(entryLog) + 1

(* C16: a step that handles an entry whose version is that of the cached    *)
(* tile, the tile having a raster, makes no fetch and changes nothing in    *)
(* the cache but the pose and metadata_version of that tile.                *)
C16_UpToDateEntryTouchesMetadataOnly ==
    [][\A t \in Threads :
          (/\ HandlesEntry(t)
           /\ EntryInHand(t).id \in RasterIds
           /\ submaps[EntryInHand(t).id].version = EntryInHand(t).version)
          => /\ entryLog'[Len(entryLog')].fetch = "skipped"
             /\ submaps' = [submaps EXCEPT
                               ![EntryInHand(t).id].pose = EntryInHand(t).pose,
                               ![EntryInHand(t).id].metadata_version =
                                   EntryInHand(t).version]]_vars

C16_Witness ==
    \E t \in Threads :
        /\ Handling(t)
        /\ entryLog # <<>>
        /\ entryLog[Len(entryLog)].fetch = "skipped"
        /\ entryLog[Len(entryLog)].id \in repeatedAtEnter \cap RasterIds
        /\ submaps[entryLog[Len(entryLog)].id].pose # Identity
        /\ submaps[entryLog[Len(entryLog)].id].cairo_data # <<>>

\* Tile identity a comes before b: by trajectory index, then by tile index.
IdentityBefore(a, b) == a[1] < b[1] \/ (a[1] = b[1] /\ a[2] < b[2])

(* C17: in both passes of a cycle the tiles are visited in strictly         *)
(* ascending identity order (trajectory index, then tile index), hence each *)
(* at most once and a higher identity is painted after a lower one.         *)
C17_PaintedInAscendingIdentityOrder ==
    \A seq \in {cycle.bbox_tiles, cycle.painted} :
        \A i, j \in 1..Len(seq) : i < j => IdentityBefore(seq[i], seq[j])

C17_Witness ==
    /\ Len(cycle.painted) = 2
    /\ cycle.painted[1] = <<0, 1>>
    /\ cycle.painted[2] = <<1, 0>>
    /\ cycle.published # <<>>
    /\ submaps[<<0, 1>>].pose = submaps[<<1, 0>>].pose

(* C18: a cycle publishes at most one grid; a batch that has been handled  *)
(* with a subscriber present while some tile has a raster has published     *)
(* exactly one; the header of a published grid carries the frame id and the *)
(* stamp of the batch being handled; outside such a batch nothing is        *)
(* published.                                                               *)
C18_OneGridPerHandledBatch ==
    /\ Len(cycle.published) <= 1
    /\ \A t \in Threads : pc[t] = "return" =>
           /\ RasterIds # {} => Len(cycle.published) = 1
           /\ \A k \in 1..Len(cycle.published) :
                  /\ cycle.published[k].frame_id = msg[t].frame_id
                  /\ cycle.published[k].stamp = msg[t].stamp
    /\ (\A t \in Threads : pc[t] # "return") => cycle.published = <<>>

C18_Witness ==
    /\ pc[2] = "return"
    /\ msg[2].frame_id = "odom"
    /\ msg[2].stamp = 2
    /\ Len(cycle.published) = 1
    /\ cycle.published[1].frame_id = "odom"
    /\ cycle.published[1].stamp = 2
    /\ cycle.published[1].width > 0
    /\ cycle.painted # <<>>

(* C19: a batch taken up while the publisher has no subscriber goes the    *)
(* way of the early return; on that way no step changes the cache, no fetch *)
(* is logged and nothing is drawn or published.                             *)
C19_NoSubscriberNoWork ==
    [][\A t \in Threads :
          /\ (pc[t] = "idle" /\ msg'[t] # msg[t] /\ numSubscribers = 0)
                 => pc'[t] = "nobody"
          /\ (pc[t] = "nobody" \/ pc'[t] = "nobody")
                 => /\ submaps' = submaps
                    /\ entryLog' = <<>>
                    /\ cycle' = IdleCycle
                    /\ pc'[t] \in {"nobody", "idle"}]_vars

C19_Witness ==
    \E t \in Threads :
        /\ pc[t] = "nobody"
        /\ numSubscribers = 0
        /\ RasterIds # {}
        /\ \E k \in 1..Len(msg[t].submap) :
              \/ msg[t].submap[k].id \notin DOMAIN submaps
              \/ /\ msg[t].submap[k].id \in DOMAIN submaps
                 /\ msg[t].submap[k].pose # submaps[msg[t].submap[k].id].pose

====
